---- MODULE Spec2Model ----
\* A model of the ocularity experiment server (src/src/main.rs): colour
\* arithmetic, the text codecs of colours, questionnaires and sessions, the
\* request dispatcher and the results log.
\*
\* Text is a sequence of Unicode code points, so that the range tests and the
\* digit arithmetic of the parsers are computed as the code computes them.
\* An f32 is an exact rational [n, d]: every f32 the program forms is an
\* integer, or an integer times i/255, whose distance to the nearest rounding
\* boundary (1/510) is far above the f32 error (below 1e-4), so rounding the
\* exact value and rounding the f32 give the same integer.
EXTENDS Integers, Sequences, FiniteSets, TLC

\* req: the request last handled; rnd: the random values its handler drew;
\* resp: the response sent; log: the lines appended to the results file;
\* call, ret: a function applied on its own, and what it returned.
VARIABLES req, rnd, resp, log, call, ret

vars == <<req, rnd, resp, log, call, ret>>

\* ---------------------------------------------------------------- text

Ascii ==
    <<" ", "!", "\"", "#", "$", "%", "&", "APOS", "(", ")", "*", "+", ",", "-", ".", "/",
      "0", "1", "2", "3", "4", "5", "6", "7", "8", "9", ":", ";", "<", "=", ">", "?",
      "@", "A", "B", "C", "D", "E", "F", "G", "H", "I", "J", "K", "L", "M", "N", "O",
      "P", "Q", "R", "S", "T", "U", "V", "W", "X", "Y", "Z", "[", "\\", "]", "^", "_",
      "GRAVE", "a", "b", "c", "d", "e", "f", "g", "h", "i", "j", "k", "l", "m", "n", "o",
      "p", "q", "r", "s", "t", "u", "v", "w", "x", "y", "z", "{", "|", "}", "~">>

\* The code point of a printable ASCII character.
Ord(ch) == 31 + CHOOSE i \in 1..Len(Ascii) : Ascii[i] = ch

\* The text made of the given characters.
Txt(s) == [i \in 1..Len(s) |-> Ord(s[i])]

\* The characters the parsers and formatters name.
CommaChar == Ord(",")

PlusChar == Ord("+")

SpaceChar == Ord(" ")

EqualsChar == Ord("=")

AmpersandChar == Ord("&")

UnderscoreChar == Ord("_")

Char0 == Ord("0")

Char9 == Ord("9")

CharA == Ord("A")

CharZ == Ord("Z")

\* The number of bytes of a code point in UTF-8 (str::len counts bytes).
Utf8Len1(c) == IF c < 128 THEN 1 ELSE IF c < 2048 THEN 2 ELSE IF c < 65536 THEN 3 ELSE 4

RECURSIVE Utf8Len(_)
Utf8Len(s) == IF s = <<>> THEN 0 ELSE Utf8Len1(Head(s)) + Utf8Len(Tail(s))

\* str::split: the fields between the separators, at least one.
RECURSIVE Split(_, _)
Split(s, sep) ==
    IF \E i \in 1..Len(s) : s[i] = sep
    THEN LET i == CHOOSE k \in 1..Len(s) : s[k] = sep /\ \A j \in 1..(k - 1) : s[j] # sep
         IN  <<SubSeq(s, 1, i - 1)>> \o Split(SubSeq(s, i + 1, Len(s)), sep)
    ELSE <<s>>

\* ---------------------------------------------------------------- results

\* Result<T, HttpError>; the errors are Invalid, NotFound and Error(_).
Ok(v) == [ok |-> TRUE, val |-> v]

Err(e) == [ok |-> FALSE, err |-> e]

\* From<ParseIntError>, From<ParseCharError>, ... for HttpError.
impl_from_for_error == "Error"

\* ---------------------------------------------------------------- integers

\* An unsigned integer is two 16-bit limbs <<hi, lo>>, value hi * 2^16 + lo.
Limb == 256 * 256

U8Max == <<0, 255>>

U32Max == <<65535, 65535>>

\* The digits of s from position i on, accumulated into acc with checked
\* multiplication and addition; <<-1, -1>> for no digit at all, a non-digit
\* or an overflow.
RECURSIVE ParseDigits(_, _, _, _)
ParseDigits(s, i, acc, max) ==
    IF s = <<>> THEN <<-1, -1>>
    ELSE IF i > Len(s) THEN acc
    ELSE IF s[i] < Char0 \/ s[i] > Char9 THEN <<-1, -1>>
    ELSE LET lo == acc[2] * 10 + (s[i] - Char0)
             hi == acc[1] * 10 + (lo \div Limb)
             nx == <<hi, lo % Limb>>
         IN  IF hi > max[1] \/ (hi = max[1] /\ nx[2] > max[2])
             THEN <<-1, -1>>
             ELSE ParseDigits(s, i + 1, nx, max)

\* str::parse for an unsigned type: an optional plus sign, then one or more digits.
ParseUInt(s, max) ==
    LET Checked(v) == IF v = <<-1, -1>> THEN Err(impl_from_for_error) ELSE Ok(v)
    IN  Checked(ParseDigits(IF s # <<>> /\ s[1] = PlusChar THEN Tail(s) ELSE s,
                            1, <<0, 0>>, max))

ParseU8(s) ==
    LET Narrow(r) == IF r.ok THEN Ok(r.val[2]) ELSE r IN Narrow(ParseUInt(s, U8Max))

\* The identifier parsed as a signed 32-bit integer instead.
ParseU32AsI32(s) == ParseUInt(s, <<32767, 65535>>)

ParseU32(s) == ParseUInt(s, U32Max)

\* Display for an unsigned integer: its decimal digits, no leading zero.
RECURSIVE FmtUInt(_)
FmtUInt(n) ==
    LET t == (n[1] % 10) * Limb + n[2]
        q == <<n[1] \div 10, t \div 10>>
    IN  IF q = <<0, 0>> THEN <<Char0 + (t % 10)>> ELSE Append(FmtUInt(q), Char0 + (t % 10))

\* str::parse::<char>: exactly one character.
ParseChar(s) == IF Len(s) = 1 THEN Ok(s[1]) ELSE Err(impl_from_for_error)

\* ---------------------------------------------------------------- deltas

Rat(n) == [n |-> n, d |-> 1]

Delta(x, y, z) == <<Rat(x), Rat(y), Rat(z)>>

DELTAS ==
    <<Delta(2, 2, -3), Delta(5, -5, 0),
      Delta(2, -3, 2), Delta(5, 0, -5),
      Delta(-3, 2, 2), Delta(0, 5, -5)>>

\* A table of scales one step wider.
SCALES_UpTo6 ==
    <<Rat(-6), Rat(-5), Rat(-4), Rat(-3), Rat(-2), Rat(-1), Rat(1), Rat(2), Rat(3), Rat(4), Rat(5), Rat(6)>>

SCALES == <<Rat(-5), Rat(-4), Rat(-3), Rat(-2), Rat(-1), Rat(1), Rat(2), Rat(3), Rat(4), Rat(5)>>

\* Mul<f32> for Delta.
DeltaMul(self, rhs) == [i \in 1..3 |-> [n |-> self[i].n * rhs.n, d |-> self[i].d * rhs.d]]

\* Neg for Delta.
DeltaNeg(self) == DeltaMul(self, Rat(-1))

\* random_delta, the two random indices being di and si.
random_delta(di, si) == DeltaMul(DELTAS[di], SCALES[si])

\* ---------------------------------------------------------------- colours

\* f32::round: to the nearest integer, halves away from zero.
Round(x) ==
    IF x.n >= 0 THEN (2 * x.n + x.d) \div (2 * x.d)
    ELSE -((2 * (-x.n) + x.d) \div (2 * x.d))

\* A cast that keeps the low eight bits instead.
AsU8Wrapping(x) == x % 256

\* `as u8` of a float: the cast saturates at the ends of the u8 range.
AsU8(x) == IF x < 0 THEN 0 ELSE IF x > 255 THEN 255 ELSE x

\* Add<Delta> for Colour.
ColourAdd(self, rhs) ==
    [i \in 1..3 |-> LET r == rhs[i] IN AsU8(Round([n |-> self[i] * r.d + r.n, d |-> r.d]))]

\* Sub<Colour> for Colour.
ColourSub(self, rhs) == [i \in 1..3 |-> Rat(self[i] - rhs[i])]

\* Sub<Delta> for Colour.
ColourSubDelta(self, rhs) == ColourAdd(self, DeltaNeg(rhs))

\* Display for Colour.
ColourFmt(c) ==
    FmtUInt(<<0, c[1]>>) \o <<CommaChar>> \o FmtUInt(<<0, c[2]>>) \o <<CommaChar>> \o FmtUInt(<<0, c[3]>>)

\* FromStr for Colour: each step fails the whole parse (the ? operator).
ColourFromStr(s) ==
    LET Channels(it, r, g, b) ==
            IF ~r.ok THEN r
            ELSE IF ~g.ok THEN g
            ELSE IF ~b.ok THEN b
            ELSE IF Len(it) > 3 THEN Err("Invalid")
            ELSE Ok(<<r.val, g.val, b.val>>)
        Fields(it) ==
            Channels(it, ParseU8(it[1]),
                     IF Len(it) < 2 THEN Err("Invalid") ELSE ParseU8(it[2]),
                     IF Len(it) < 3 THEN Err("Invalid") ELSE ParseU8(it[3]))
    IN  Fields(Split(s, CommaChar))

CENTRES ==
    << << 25,  25,  25>>, <<127,  25,  25>>, <<229,  25,  25>>,
       << 25, 127,  25>>, <<127, 127,  25>>, <<229, 127,  25>>,
       << 25, 229,  25>>, <<127, 229,  25>>, <<229, 229,  25>>,

       << 25,  25, 127>>, <<127,  25, 127>>, <<229,  25, 127>>,
       << 25, 127, 127>>, <<127, 127, 127>>, <<229, 127, 127>>,
       << 25, 229, 127>>, <<127, 229, 127>>, <<229, 229, 127>>,

       << 25,  25, 229>>, <<127,  25, 229>>, <<229,  25, 229>>,
       << 25, 127, 229>>, <<127, 127, 229>>, <<229, 127, 229>>,
       << 25, 229, 229>>, <<127, 229, 229>>, <<229, 229, 229>>,

       << 76,  76,  76>>, <<178,  76,  76>>,
       << 76, 178,  76>>, <<178, 178,  76>>,

       << 76,  76, 178>>, <<178,  76, 178>>,
       << 76, 178, 178>>, <<178, 178, 178>> >>

\* random_centre, the random index being ci.
random_centre(ci) == CENTRES[ci]

\* random_colour_pair, the three random indices being ci, di and si.
random_colour_pair(ci, di, si) ==
    LET centre == random_centre(ci)
        delta == random_delta(di, si)
    IN  <<ColourAdd(centre, delta), ColourSubDelta(centre, delta)>>

\* The palette of image(): entry i is bg + (fg - bg) * (i / 255).
PaletteSize == 256

\* The fraction taken over 256 instead of 255.
PaletteEntryOver256(bg, fg, i) ==
    LET f == [n |-> i, d |-> 256] IN ColourAdd(bg, DeltaMul(ColourSub(fg, bg), f))

PaletteEntry(bg, fg, i) ==
    LET f == [n |-> i, d |-> 255] IN ColourAdd(bg, DeltaMul(ColourSub(fg, bg), f))

\* The Vec<u8> handed to set_palette: three bytes pushed per entry.
Palette(bg, fg) ==
    [j \in 1..(3 * PaletteSize) |-> PaletteEntry(bg, fg, (j - 1) \div 3)[((j - 1) % 3) + 1]]

\* ---------------------------------------------------------------- questionnaire

QUESTIONS ==
    <<Txt(<<"a", "g", "e">>), Txt(<<"s", "e", "x">>),
      Txt(<<"e", "y", "e", "_", "c", "o", "l", "o", "u", "r">>),
      Txt(<<"c", "v", "d">>), Txt(<<"e", "y", "e", "w", "e", "a", "r">>),
      Txt(<<"s", "u", "r", "g", "e", "r", "y">>),
      Txt(<<"w", "h", "e", "r", "e">>), Txt(<<"l", "i", "g", "h", "t">>),
      Txt(<<"c", "o", "m", "p", "a", "n", "y">>),
      Txt(<<"d", "e", "v", "i", "c", "e">>), Txt(<<"s", "c", "r", "e", "e", "n">>),
      Txt(<<"m", "o", "n", "o", "c", "h", "r", "o", "m", "e">>)>>

\* The character test of Questionnaire::from_str.
InAlphabet(c) ==
    (c >= CharA /\ c <= CharZ) \/ (c >= Char0 /\ c <= Char9) \/ c = UnderscoreChar

\* FromStr for Questionnaire.
QuestionnaireFromStr(s) ==
    IF Utf8Len(s) # Len(QUESTIONS) THEN Err("Invalid")
    ELSE IF \E i \in 1..Len(s) : ~InAlphabet(s[i]) THEN Err("Invalid")
    ELSE Ok(s)

\* ---------------------------------------------------------------- params

K_id == Txt(<<"i", "d">>)

K_q == Txt(<<"q">>)

K_which == Txt(<<"w", "h", "i", "c", "h">>)

K_win1 == Txt(<<"w", "i", "n", "1">>)

K_win2 == Txt(<<"w", "i", "n", "2">>)

K_lose1 == Txt(<<"l", "o", "s", "e", "1">>)

K_lose2 == Txt(<<"l", "o", "s", "e", "2">>)

K_bg == Txt(<<"b", "g">>)

K_fg == Txt(<<"f", "g">>)

\* T::from_str for the types T that Params::get is called at.
FromStr(T, s) ==
    CASE T = "char" -> ParseChar(s)
      [] T = "u8" -> ParseU8(s)
      [] T = "u32" -> ParseU32(s)
      [] T = "Colour" -> ColourFromStr(s)
      [] T = "Questionnaire" -> QuestionnaireFromStr(s)

\* Params::get: Invalid for an absent key, else the value parsed as a T.
ParamsGet(params, key, T) ==
    IF key \notin DOMAIN params THEN Err("Invalid") ELSE FromStr(T, params[key])

\* The key=value pairs of a query string, '+' standing for a space; a later
\* pair replaces an earlier one of the same key (collect into a HashMap).
\* Percent-escapes are absent from every query string formed here.
PlusToSpace(s) == [i \in 1..Len(s) |-> IF s[i] = PlusChar THEN SpaceChar ELSE s[i]]

PairOf(field) ==
    LET kv == Split(field, EqualsChar)
    IN  <<PlusToSpace(kv[1]),
          PlusToSpace(SubSeq(field, Len(kv[1]) + 2, Len(field)))>>

QueryPairs(query) ==
    LET Collect(pairs) ==
            LET last(k) == CHOOSE i \in DOMAIN pairs :
                               /\ pairs[i][1] = k
                               /\ \A j \in DOMAIN pairs : pairs[j][1] = k => j <= i
            IN  [k \in {pairs[i][1] : i \in DOMAIN pairs} |-> pairs[last(k)][2]]
        Pairs(fields) ==
            [i \in {j \in 1..Len(fields) : fields[j] # <<>>} |-> PairOf(fields[i])]
    IN  Collect(Pairs(Split(query, AmpersandChar)))

\* ---------------------------------------------------------------- session

\* Session::start, the random identifier being id.
SessionStart(params, id) ==
    LET Checked(q) == IF ~q.ok THEN q ELSE Ok([id |-> id, questionnaire |-> q.val])
        Answers(got) ==
            LET bad == {i \in 1..Len(QUESTIONS) : ~got[i].ok}
            IN  IF bad # {} THEN got[CHOOSE i \in bad : \A j \in bad : i <= j]
                ELSE Checked(QuestionnaireFromStr([i \in 1..Len(QUESTIONS) |-> got[i].val]))
    IN  Answers([i \in 1..Len(QUESTIONS) |-> ParamsGet(params, QUESTIONS[i], "char")])

\* Session::from_params.
SessionFromParams(params) ==
    LET Fields(id, q) ==
            IF ~id.ok THEN id
            ELSE IF ~q.ok THEN q
            ELSE Ok([id |-> id.val, questionnaire |-> q.val])
    IN  Fields(ParamsGet(params, K_id, "u32"), ParamsGet(params, K_q, "Questionnaire"))

\* Session::to_params.
T_id_eq == Txt(<<"i", "d", "=">>)

T_and_q_eq == Txt(<<"&", "q", "=">>)

SessionToParams(self) == T_id_eq \o FmtUInt(self.id) \o T_and_q_eq \o self.questionnaire

\* ---------------------------------------------------------------- handlers

\* HttpOkay.
Redirect(url) == [kind |-> "Redirect", body |-> url]

Static(name, contentType) == [kind |-> "Static", body |-> name, contentType |-> contentType]

Html(page) == [kind |-> "Html", body |-> page]

Data(bytes) == [kind |-> "Data", body |-> bytes]

P_root == <<>>

P_index == Txt(<<"i", "n", "d", "e", "x", ".", "h", "t", "m", "l">>)

P_stylesheet == Txt(<<"s", "t", "y", "l", "e", "s", "h", "e", "e", "t", ".", "c", "s", "s">>)

P_intro == Txt(<<"i", "n", "t", "r", "o", ".", "h", "t", "m", "l">>)

P_image == Txt(<<"i", "m", "a", "g", "e", ".", "p", "n", "g">>)

P_question == Txt(<<"q", "u", "e", "s", "t", "i", "o", "n">>)

P_start == Txt(<<"s", "t", "a", "r", "t">>)

P_submit == Txt(<<"s", "u", "b", "m", "i", "t">>)

\* Ocularity::image. The body is the palette given to the PNG encoder; the
\* test pattern and the codec are fixed and outside the model.
image(params) ==
    LET Gradient(bg, fg) ==
            IF ~bg.ok THEN bg
            ELSE IF ~fg.ok THEN fg
            ELSE Ok(Data(Palette(bg.val, fg.val)))
    IN  Gradient(ParamsGet(params, K_bg, "Colour"), ParamsGet(params, K_fg, "Colour"))

T_image_bg == P_image \o Txt(<<"?", "b", "g", "=">>)

T_and_fg == Txt(<<"&", "f", "g", "=">>)

T_question == P_question \o Txt(<<"?">>)

T_true == Txt(<<"t", "r", "u", "e">>)

T_false == Txt(<<"f", "a", "l", "s", "e">>)

\* Ocularity::form_element: the hidden inputs, in order, and the image source.
form_element(session, which, win, lose) ==
    [inputs |-> << <<K_id, FmtUInt(session.id)>>,
                   <<K_q, session.questionnaire>>,
                   <<K_which, FmtUInt(<<0, which>>)>>,
                   <<K_win1, ColourFmt(win[1])>>,
                   <<K_win2, ColourFmt(win[2])>>,
                   <<K_lose1, ColourFmt(lose[1])>>,
                   <<K_lose2, ColourFmt(lose[2])>> >>,
     src |-> T_image_bg \o ColourFmt(win[1]) \o T_and_fg \o ColourFmt(win[2])]

\* Both forms built with the pairs in the same order.
question_unswapped(params, draws) ==
    LET Page(session, pair1, pair2) ==
            IF ~session.ok THEN session
            ELSE Ok(Html(<<form_element(session.val, 1, pair1, pair2),
                           form_element(session.val, 2, pair1, pair2)>>))
    IN  Page(SessionFromParams(params),
             random_colour_pair(draws[1][1], draws[1][2], draws[1][3]),
             random_colour_pair(draws[2][1], draws[2][2], draws[2][3]))

\* Ocularity::question; draws[1] and draws[2] are the random indices of the two pairs.
question(params, draws) ==
    LET Page(session, pair1, pair2) ==
            IF ~session.ok THEN session
            ELSE Ok(Html(<<form_element(session.val, 1, pair1, pair2),
                           form_element(session.val, 2, pair2, pair1)>>))
    IN  Page(SessionFromParams(params),
             random_colour_pair(draws[1][1], draws[1][2], draws[1][3]),
             random_colour_pair(draws[2][1], draws[2][2], draws[2][3]))

\* Ocularity::start; id is the random identifier.
start(params, id) ==
    LET Begin(session) ==
            IF ~session.ok THEN session
            ELSE Ok(Redirect(T_question \o SessionToParams(session.val)))
    IN  Begin(SessionStart(params, id))

\* Display for bool.
BoolFmt(b) == IF b THEN T_true ELSE T_false

\* The line with the losing colours written before the winning ones.
ResultLineLosersFirst(session, is_first, win1, win2, lose1, lose2) ==
    <<FmtUInt(session.id), session.questionnaire, BoolFmt(is_first),
      ColourFmt(lose1), ColourFmt(lose2), ColourFmt(win1), ColourFmt(win2)>>

\* The fields of a line of the results file, in order; the timestamp field,
\* which no request decides, is left out.
ResultLine(session, is_first, win1, win2, lose1, lose2) ==
    <<FmtUInt(session.id), session.questionnaire, BoolFmt(is_first),
      ColourFmt(win1), ColourFmt(win2), ColourFmt(lose1), ColourFmt(lose2)>>

\* Ocularity::submit: the result and the results file after it. The file is
\* taken to accept every write.
submit(params, results) ==
    LET fail(e) == [res |-> e, log |-> results]
        Record(session, which, win1, win2, lose1, lose2) ==
            IF ~session.ok THEN fail(session)
            ELSE IF ~which.ok THEN fail(which)
            ELSE IF ~win1.ok THEN fail(win1)
            ELSE IF ~win2.ok THEN fail(win2)
            ELSE IF ~lose1.ok THEN fail(lose1)
            ELSE IF ~lose2.ok THEN fail(lose2)
            ELSE [res |-> Ok(Redirect(T_question \o SessionToParams(session.val))),
                  log |-> Append(results,
                                 ResultLine(session.val, which.val = 1,
                                            win1.val, win2.val, lose1.val, lose2.val))]
    IN  Record(SessionFromParams(params),
               ParamsGet(params, K_which, "u8"),
               ParamsGet(params, K_win1, "Colour"),
               ParamsGet(params, K_win2, "Colour"),
               ParamsGet(params, K_lose1, "Colour"),
               ParamsGet(params, K_lose2, "Colour"))

\* The last segment of the path instead of the first.
LastSegment(path) == IF path = <<>> THEN <<>> ELSE path[Len(path)]

\* The segment a GET request is routed by: path.next().
FirstSegment(path) == IF path = <<>> THEN <<>> ELSE path[1]

\* Ocularity::handle_request: the result and the results file after it.
\* request.url is the outcome of joining the request URL to the base URL: an
\* error, or the path segments and the query pairs.
handle_request(request, random, results) ==
    LET keep(r) == [res |-> r, log |-> results]
        params == request.url.params
        seg == FirstSegment(request.url.path)
    IN  IF request.method # "GET" THEN keep(Err("Invalid"))
        ELSE IF ~request.url.ok THEN keep(Err(impl_from_for_error))
        ELSE IF seg = P_root \/ seg = P_index THEN keep(Ok(Redirect(P_intro)))
        ELSE IF seg = P_stylesheet THEN keep(Ok(Static("stylesheet.css", "text/css")))
        ELSE IF seg = P_intro THEN keep(Ok(Static("intro.html", "text/html")))
        ELSE IF seg = P_image THEN keep(image(params))
        ELSE IF seg = P_question THEN keep(question(params, random.pairs))
        ELSE IF seg = P_start THEN keep(start(params, random.id))
        ELSE IF seg = P_submit THEN submit(params, results)
        ELSE keep(Err("NotFound"))

\* The match of handle_requests: the response sent for a result.
Respond(r) ==
    IF r.ok
    THEN IF r.val.kind = "Redirect"
         THEN [status |-> 301, kind |-> "Redirect", body |-> r.val.body]
         ELSE [status |-> 200, kind |-> r.val.kind, body |-> r.val.body]
    ELSE IF r.err = "Invalid" THEN [status |-> 400, kind |-> "Text", body |-> "Invalid request"]
    ELSE IF r.err = "NotFound" THEN [status |-> 404, kind |-> "Text", body |-> "Not found"]
    ELSE [status |-> 500, kind |-> "Text", body |-> "Internal error"]

\* ---------------------------------------------------------------- requests

NoParams == [k \in {} |-> <<>>]

GetRequest(path, params) ==
    [method |-> "GET", url |-> [ok |-> TRUE, path |-> path, params |-> params]]

\* The URL of a request whose join to the base URL is refused.
BadUrl == [ok |-> FALSE, path |-> <<>>, params |-> NoParams]

NoRequest == [method |-> "NONE", url |-> BadUrl]

NoResponse == [status |-> 0, kind |-> "None", body |-> ""]

\* params with the value of key k replaced, or with k removed.
With(params, k, v) == [x \in DOMAIN params \cup {k} |-> IF x = k THEN v ELSE params[x]]

Without(params, k) == [x \in DOMAIN params \ {k} |-> params[x]]

\* params itself, params less one key, and params with one value replaced.
OneChanged(params, values) ==
    {params} \cup {Without(params, k) : k \in DOMAIN params}
             \cup UNION {{With(params, k, v) : v \in values[k]} : k \in DOMAIN params}

\* Sample parameter values: well formed ones and one of each kind of fault.
Q0 == Txt(<<"A", "1", "_", "Z", "9", "B", "C", "D", "E", "F", "G", "0">>)

Q1 == Txt(<<"_", "_", "_", "_", "_", "_", "_", "_", "_", "_", "_", "_">>)

\* The letter e with an acute accent: one character, two bytes of UTF-8.
EAcute == CharZ + 143

IdFaults ==
    {<<>>, Txt(<<"x", "7">>), Txt(<<"-", "1">>),
     Txt(<<"4", "2", "9", "4", "9", "6", "7", "2", "9", "6">>), Txt(<<"1", ".", "5">>)}

IdTexts == IdFaults \cup
    {Txt(<<"4", "2", "9", "4", "9", "6", "7", "2", "9", "5">>), Txt(<<"+", "7">>),
     Txt(<<"0", "0", "7">>)}

QFaults ==
    {Txt(<<"A", "1", "_", "Z", "9", "B", "C", "D", "E", "F", "G">>),
     Txt(<<"A", "1", "_", "Z", "9", "B", "C", "D", "E", "F", "G", "0", "H">>),
     Txt(<<"a", "1", "_", "Z", "9", "B", "C", "D", "E", "F", "G", "0">>),
     Txt(<<"A", "1", "_", "Z", "9", "B", "C", "D", "E", "F", "-", "0">>),
     Txt(<<"[", "1", "_", "Z", "9", "B", "C", "D", "E", "F", "G", "0">>), <<>>,
     <<EAcute>> \o SubSeq(Q0, 2, 12), <<EAcute>> \o SubSeq(Q0, 2, 11)}

WhichTexts ==
    {Txt(<<"2">>), Txt(<<"0">>), Txt(<<"x">>), Txt(<<"2", "5", "6">>), <<>>}

ColourFaults ==
    {Txt(<<"1", ",", "2">>), Txt(<<"1", ",", "2", ",", "3", ",", "4">>),
     Txt(<<"1", ",", "x", ",", "3">>), Txt(<<"1", ",", ",", "3">>),
     Txt(<<"2", "5", "6", ",", "0", ",", "0">>), Txt(<<"-", "1", ",", "0", ",", "0">>), <<>>,
     Txt(<<"1", ",", "2", ",", "3", ",">>)}

AnswerTexts ==
    {<<>>, Txt(<<"A">>), Txt(<<"a">>), Txt(<<"A", "B">>), Txt(<<"-">>), Txt(<<"_", "_">>),
     <<EAcute>>}

SubmitBase ==
    [k \in {K_id, K_q, K_which, K_win1, K_win2, K_lose1, K_lose2} |->
        IF k = K_id THEN Txt(<<"7">>)
        ELSE IF k = K_q THEN Q0
        ELSE IF k = K_which THEN Txt(<<"1">>)
        ELSE IF k = K_win1 THEN Txt(<<"1", ",", "2", ",", "3">>)
        ELSE IF k = K_win2 THEN Txt(<<"4", "0", ",", "5", "0", ",", "6", "0">>)
        ELSE IF k = K_lose1 THEN Txt(<<"7", ",", "8", ",", "9">>)
        ELSE Txt(<<"1", "0", "0", ",", "1", "1", "0", ",", "2", "5", "5">>)]

\* The faults, and other spellings of the value SubmitBase has.
SubmitValues(k) ==
    IF k = K_id THEN IdFaults \cup {Txt(<<"+", "7">>)}
    ELSE IF k = K_q THEN QFaults
    ELSE IF k = K_which THEN WhichTexts
    ELSE IF k = K_win1 THEN ColourFaults \cup {Txt(<<"+", "1", ",", "0", "2", ",", "3">>)}
    ELSE {Txt(<<"1", ",", "x", ",", "3">>), Txt(<<"1", ",", "2">>)}

QuestionBase == [k \in {K_id, K_q} |-> SubmitBase[k]]

QuestionValues(k) == IF k = K_id THEN IdTexts ELSE QFaults \cup {Q1}

ImageBase ==
    [k \in {K_bg, K_fg} |-> IF k = K_bg THEN Txt(<<"2", "5", ",", "2", "5", ",", "2", "5">>) ELSE Txt(<<"2", "2", "9", ",", "2", "5", ",", "2", "5">>)]

ImageValues(k) == IF k = K_bg THEN ColourFaults ELSE {Txt(<<"1", ",", "x", ",", "3">>), Txt(<<"1", ",", "2">>)}

StartBase == [k \in {QUESTIONS[i] : i \in 1..Len(QUESTIONS)} |-> <<UnderscoreChar>>]

\* Twelve different answers, A to L in the order of QUESTIONS.
StartOrdered ==
    [k \in DOMAIN StartBase |-> <<CharA + (CHOOSE i \in 1..Len(QUESTIONS) : QUESTIONS[i] = k) - 1>>]

\* The first, a middle and the last question take every sample answer.
StartValues(k) == IF k \in {QUESTIONS[1], QUESTIONS[7], QUESTIONS[12]} THEN AnswerTexts ELSE {}

\* Two faults at once: a missing answer before or after a two-character one.
StartTwoFaults ==
    {With(Without(StartBase, QUESTIONS[1]), QUESTIONS[2], Txt(<<"A", "B">>)),
     With(Without(StartBase, QUESTIONS[2]), QUESTIONS[1], Txt(<<"A", "B">>))}

P_nope == Txt(<<"n", "o", "p", "e">>)

P_Submit == Txt(<<"S", "u", "b", "m", "i", "t">>)

P_submit2 == Txt(<<"s", "u", "b", "m", "i", "t", "2">>)

\* The random indices of the first n draws of a colour pair, walking the tables.
PairDraws(n) ==
    {<<((i - 1) % Len(CENTRES)) + 1, (i % Len(DELTAS)) + 1, Len(SCALES) - ((i - 1) % Len(SCALES))>> :
        i \in 1..n}

IdDraws == {<<0, 7>>, U32Max}

Rnd0 == [pairs |-> <<<<1, 1, 1>>, <<1, 1, 1>>>>, id |-> <<0, 0>>]

MaxLog == 2

MaxDraw == 1

\* The inputs of each action: a request and the random values its handler
\* draws. A handler draws random values only once its parameters are decoded.
IndexInputs ==
    {<<GetRequest(<<P_root>>, NoParams), Rnd0>>,
     <<GetRequest(<<P_index>>, NoParams), Rnd0>>,
     <<GetRequest(<<P_index, P_submit>>, SubmitBase), Rnd0>>}

StylesheetInputs ==
    {<<GetRequest(<<P_stylesheet>>, NoParams), Rnd0>>,
     <<GetRequest(<<P_stylesheet, P_submit>>, SubmitBase), Rnd0>>}

IntroInputs ==
    {<<GetRequest(<<P_intro>>, NoParams), Rnd0>>,
     <<GetRequest(<<P_intro, P_nope>>, NoParams), Rnd0>>}

ImageInputs ==
    {<<GetRequest(<<P_image>>, params), Rnd0>> : params \in OneChanged(ImageBase, [k \in DOMAIN ImageBase |-> ImageValues(k)])}
    \cup {<<GetRequest(<<P_image, P_nope>>, Without(ImageBase, K_fg)), Rnd0>>}

QuestionInputs ==
    LET reqs == {GetRequest(<<P_question>>, params) :
                     params \in OneChanged(QuestionBase, [k \in DOMAIN QuestionBase |-> QuestionValues(k)])}
                \cup {GetRequest(<<P_question, P_submit>>, QuestionBase)}
        draws(r) == IF SessionFromParams(r.url.params).ok
                    THEN {[Rnd0 EXCEPT !.pairs = <<p1, p2>>] : p1, p2 \in PairDraws(MaxDraw)}
                    ELSE {Rnd0}
    IN  UNION {{<<r, d>> : d \in draws(r)} : r \in reqs}

StartInputs ==
    LET reqs == {GetRequest(<<P_start>>, params) :
                     params \in OneChanged(StartBase, [k \in DOMAIN StartBase |-> StartValues(k)])
                                \cup {StartOrdered} \cup StartTwoFaults}
                \cup {GetRequest(<<P_start, P_nope>>, StartOrdered)}
        draws(r) == IF SessionStart(r.url.params, <<0, 0>>).ok
                    THEN {[Rnd0 EXCEPT !.id = id] : id \in IdDraws}
                    ELSE {Rnd0}
    IN  UNION {{<<r, d>> : d \in draws(r)} : r \in reqs}

SubmitInputs ==
    {<<GetRequest(<<P_submit>>, params), Rnd0>> : params \in OneChanged(SubmitBase, [k \in DOMAIN SubmitBase |-> SubmitValues(k)])}
    \cup {<<GetRequest(<<P_submit, P_nope>>, SubmitBase), Rnd0>>}

NotFoundInputs ==
    {<<GetRequest(<<P_nope>>, NoParams), Rnd0>>,
     <<GetRequest(<<P_nope, P_submit>>, SubmitBase), Rnd0>>,
     <<GetRequest(<<P_Submit>>, SubmitBase), Rnd0>>,
     <<GetRequest(<<P_submit2>>, SubmitBase), Rnd0>>}

NonGetInputs ==
    {<<[method |-> m, url |-> u], Rnd0>> :
        m \in {"POST", "HEAD"},
        u \in {BadUrl,
               GetRequest(<<P_root>>, NoParams).url,
               GetRequest(<<P_submit>>, SubmitBase).url,
               GetRequest(<<P_start>>, StartBase).url,
               GetRequest(<<P_nope>>, NoParams).url}}

\* ---------------------------------------------------------------- the server

NoCall == [op |-> "none"]

Init ==
    /\ req = NoRequest
    /\ rnd = Rnd0
    /\ resp = NoResponse
    /\ log = <<>>
    /\ call = NoCall
    /\ ret = NoCall

\* One turn of the loop of handle_requests: a request is handled and answered.
Handle(in) ==
    \E out \in {handle_request(in[1], in[2], log)} :
        /\ req' = in[1]
        /\ rnd' = in[2]
        /\ resp' = Respond(out.res)
        /\ log' = out.log
        /\ UNCHANGED <<call, ret>>

Index == \E in \in IndexInputs : Handle(in)

Stylesheet == \E in \in StylesheetInputs : Handle(in)

Intro == \E in \in IntroInputs : Handle(in)

Image == \E in \in ImageInputs : Handle(in)

Question == \E in \in QuestionInputs : Handle(in)

Start == \E in \in StartInputs : Handle(in)

Submit == Len(log) < MaxLog /\ \E in \in SubmitInputs : Handle(in)

NotFound == \E in \in NotFoundInputs : Handle(in)

UrlRefused == Handle(<<[method |-> "GET", url |-> BadUrl], Rnd0>>)

NonGet == \E in \in NonGetInputs : Handle(in)

Next ==
    \/ Index
    \/ Stylesheet
    \/ Intro
    \/ Image
    \/ Question
    \/ Start
    \/ Submit
    \/ NotFound
    \/ UrlRefused
    \/ NonGet

Spec == Init /\ [][Next]_vars

\* ---------------------------------------------------------------- a trial

MaxTrialDraw == 2

MaxTrials == 2

TrialSessions ==
    {QuestionBase,
     [k \in {K_id, K_q} |-> IF k = K_id THEN Txt(<<"4", "2", "9", "4", "9", "6", "7", "2", "9", "5">>) ELSE Q1]}

\* The random indices of the last entry of each table.
LastDraw == <<Len(CENTRES), Len(DELTAS), Len(SCALES)>>

\* The first stimulus walks the tables, the second is the last draw.
TrialQuestionInputs ==
    {<<GetRequest(<<P_question>>, params), [Rnd0 EXCEPT !.pairs = <<p1, LastDraw>>]>> :
        params \in TrialSessions, p1 \in PairDraws(MaxTrialDraw)}

\* The query string a browser forms from the hidden inputs of a form, as it
\* reaches the URL parser: name=value joined by &.
RECURSIVE FormQuery(_)
FormQuery(inputs) ==
    IF inputs = <<>> THEN <<>>
    ELSE Head(inputs)[1] \o <<EqualsChar>> \o Head(inputs)[2]
         \o (IF Len(inputs) > 1 THEN <<AmpersandChar>> ELSE <<>>) \o FormQuery(Tail(inputs))

\* The request a click on the image of a form sends: <form action="submit">.
FormRequest(form) == GetRequest(<<P_submit>>, QueryPairs(FormQuery(form.inputs)))

TrialQuestion == \E in \in TrialQuestionInputs : Handle(in)

\* The subject clicks one of the two images of the page last served.
SubmitForm ==
    /\ resp.kind = "Html"
    /\ Len(log) < MaxTrials
    /\ \E k \in 1..2 : Handle(<<FormRequest(resp.body[k]), Rnd0>>)

NextTrial ==
    \/ TrialQuestion
    \/ SubmitForm

SpecTrial == Init /\ [][NextTrial]_vars

\* ---------------------------------------------------------------- functions on their own

Pending == [op |-> "pending"]

ChannelStep == 85

MaxScale == 26

MaxEdge == 2

ChannelSample == {c \in 0..255 : c % ChannelStep = 0} \cup {255}

ColourSample == {<<r, g, b>> : r, g, b \in ChannelSample}

\* Every direction of DELTAS, times every whole scale up to MaxScale.
DeltaSample == {DeltaMul(DELTAS[di], Rat(k)) : di \in 1..Len(DELTAS), k \in (-MaxScale)..MaxScale}

GradientColours == {<<r, g, 255 - r>> : r, g \in ChannelSample}

AddCalls == {[op |-> "add", colour |-> c, delta |-> d] : c \in ColourSample, d \in DeltaSample}

SubCalls == {[op |-> "sub", colour |-> c, delta |-> d] : c \in ColourSample, d \in DeltaSample}

ImageCalls == {[op |-> "image", bg |-> bg, fg |-> fg] : bg, fg \in GradientColours}

PairCalls ==
    {[op |-> "pair", ci |-> ci, di |-> di, si |-> si] :
        ci \in 1..Len(CENTRES), di \in 1..Len(DELTAS), si \in 1..Len(SCALES)}

InitArith ==
    /\ req = NoRequest
    /\ rnd = Rnd0
    /\ resp = NoResponse
    /\ log = <<>>
    /\ \/ call \in AddCalls
       \/ call \in SubCalls
       \/ call \in ImageCalls
       \/ call \in PairCalls
    /\ ret = Pending

Return(op, val) ==
    /\ call.op = op
    /\ ret.op = "pending"
    /\ ret' = [op |-> op, val |-> val]
    /\ UNCHANGED <<req, rnd, resp, log, call>>

AddDelta == Return("add", ColourAdd(call.colour, call.delta))

SubDelta == Return("sub", ColourSubDelta(call.colour, call.delta))

\* image() on the text of the two colours.
ImagePalette ==
    Return("image", image([k \in {K_bg, K_fg} |->
                              IF k = K_bg THEN ColourFmt(call.bg) ELSE ColourFmt(call.fg)]))

RandomPair == Return("pair", random_colour_pair(call.ci, call.di, call.si))

NextArith ==
    \/ AddDelta
    \/ SubDelta
    \/ ImagePalette
    \/ RandomPair

SpecArith == InitArith /\ [][NextArith]_vars

\* Sample sessions: identifiers at the ends and the middle of the u32 range
\* and where the number of digits changes; tokens of one repeated character
\* and tokens with one character set.
IdLimbs ==
    (0..(MaxEdge - 1)) \cup ((Limb - MaxEdge)..(Limb - 1)) \cup {9, 10, 32767, 32768, 34463, 34464}

Alphabet == (CharA..CharZ) \cup (Char0..Char9) \cup {UnderscoreChar}

TokenSample ==
    {[i \in 1..Len(QUESTIONS) |-> c] : c \in Alphabet}
    \cup {[Q1 EXCEPT ![i] = c] : i \in 1..Len(QUESTIONS), c \in {CharA, CharZ, Char0, Char9}}
    \cup {Q0}

SessionSample == {[id |-> <<hi, lo>>, questionnaire |-> q] : hi, lo \in IdLimbs, q \in TokenSample}

InitCodec ==
    /\ req = NoRequest
    /\ rnd = Rnd0
    /\ resp = NoResponse
    /\ log = <<>>
    /\ call \in {[op |-> "to_params", session |-> s] : s \in SessionSample}
    /\ ret = Pending

Encode == Return("to_params", SessionToParams(call.session))

\* The query string made by to_params is parsed and decoded.
Decode ==
    /\ call.op = "to_params"
    /\ ret.op = "to_params"
    /\ call' = [op |-> "from_params", session |-> call.session, query |-> ret.val]
    /\ ret' = [op |-> "from_params", val |-> SessionFromParams(QueryPairs(ret.val))]
    /\ UNCHANGED <<req, rnd, resp, log>>

NextCodec ==
    \/ Encode
    \/ Decode

SpecCodec == InitCodec /\ [][NextCodec]_vars

\* ---------------------------------------------------------------- reading text

\* What the claims mean by well formed text, stated on the characters alone.
IsDigit(c) == c >= Char0 /\ c <= Char9

Unsigned(s) == IF s # <<>> /\ s[1] = PlusChar THEN Tail(s) ELSE s

RECURSIVE StripZeros(_)
StripZeros(s) == IF Len(s) > 1 /\ s[1] = Char0 THEN StripZeros(Tail(s)) ELSE s

\* The decimal spelling without sign and leading zeros.
Canon(s) == StripZeros(Unsigned(s))

\* a <= b for two digit strings of the same length.
RECURSIVE DigitsLeq(_, _)
DigitsLeq(a, b) ==
    IF a = <<>> THEN TRUE
    ELSE IF a[1] # b[1] THEN a[1] < b[1]
    ELSE DigitsLeq(Tail(a), Tail(b))

\* s spells a decimal integer between 0 and the number top spells.
IsDecimalUpTo(s, top) ==
    LET d == Unsigned(s)
        c == Canon(s)
    IN  /\ d # <<>>
        /\ \A i \in 1..Len(d) : IsDigit(d[i])
        /\ Len(c) < Len(top) \/ (Len(c) = Len(top) /\ DigitsLeq(c, top))

Top8 == Txt(<<"2", "5", "5">>)

Top32 == Txt(<<"4", "2", "9", "4", "9", "6", "7", "2", "9", "5">>)

\* s spells three comma-separated decimal integers, each in [0,255].
IsColourText(s) ==
    LET f == Split(s, CommaChar)
    IN  Len(f) = 3 /\ \A i \in 1..3 : IsDecimalUpTo(f[i], Top8)

CanonColour(s) ==
    LET f == Split(s, CommaChar)
    IN  Canon(f[1]) \o <<CommaChar>> \o Canon(f[2]) \o <<CommaChar>> \o Canon(f[3])

\* s is a twelve-character token over [A-Z0-9_].
IsToken(s) ==
    /\ Len(s) = 12
    /\ \A i \in 1..Len(s) :
           \/ s[i] \in CharA..CharZ
           \/ s[i] \in Char0..Char9
           \/ s[i] = UnderscoreChar

Has(params, k) == k \in DOMAIN params

IsU32Text(s) == IsDecimalUpTo(s, Top32)

IsSessionParams(params) ==
    /\ Has(params, K_id) /\ IsU32Text(params[K_id])
    /\ Has(params, K_q) /\ IsToken(params[K_q])

\* The request in a state is a GET whose URL was parsed, routed by segment p.
GetOf(r, p) == r.method = "GET" /\ r.url.ok /\ r.url.path # <<>> /\ r.url.path[1] = p

RoutingTable ==
    {P_root, P_index, P_stylesheet, P_intro, P_image, P_question, P_start, P_submit}

ColourKeys == {K_win1, K_win2, K_lose1, K_lose2}

\* ---------------------------------------------------------------- claims

\* C1: a colour parameter that is absent or is not three comma-separated
\* decimal integers in [0,255] makes /image.png (bg, fg) and /submit (win1,
\* win2, lose1, lose2) answer 400, never 500.
C1_BadColourIs400 ==
    /\ (GetOf(req, P_image) /\ \E k \in {K_bg, K_fg} : ~(Has(req.url.params, k) /\ IsColourText(req.url.params[k])))
           => resp.status = 400
    /\ (GetOf(req, P_submit) /\ \E k \in ColourKeys : ~(Has(req.url.params, k) /\ IsColourText(req.url.params[k])))
           => resp.status = 400

\* C2: /question and /submit answer 400 whenever id is missing or is not a
\* decimal unsigned 32-bit integer, or q is missing or is not a 12-character
\* token over [A-Z0-9_]; /question succeeds exactly when both are well formed.
C2_BadSessionIs400 ==
    /\ ((GetOf(req, P_question) \/ GetOf(req, P_submit)) /\ ~IsSessionParams(req.url.params))
           => resp.status = 400
    /\ GetOf(req, P_question) => (resp.status = 200 <=> IsSessionParams(req.url.params))

\* C3: /start answers 301 to question?id=<n>&q=<the twelve answers in the
\* order of QUESTIONS> exactly when every question has a one-character answer
\* of the alphabet, and 400 in every other case.
C3_StartIs301Or400 ==
    GetOf(req, P_start) =>
        LET p == req.url.params
            good == \A i \in 1..Len(QUESTIONS) :
                        /\ QUESTIONS[i] \in DOMAIN p
                        /\ Len(p[QUESTIONS[i]]) = 1
                        /\ IsToken([j \in 1..12 |-> p[QUESTIONS[i]][1]])
            token == [i \in 1..Len(QUESTIONS) |-> p[QUESTIONS[i]][1]]
        IN  IF good
            THEN /\ resp.status = 301
                 /\ resp.body = T_question \o T_id_eq \o FmtUInt(rnd.id) \o T_and_q_eq \o token
            ELSE resp.status = 400

\* The line carries the id, the token, which = 1 and the four colours of params.
LineCarries(line, params) ==
    /\ {K_id, K_q, K_which} \cup ColourKeys \subseteq DOMAIN params
    /\ line = <<Canon(params[K_id]), params[K_q],
                IF Canon(params[K_which]) = <<Char0 + 1>> THEN T_true ELSE T_false,
                CanonColour(params[K_win1]), CanonColour(params[K_win2]),
                CanonColour(params[K_lose1]), CanonColour(params[K_lose2])>>

\* C4: a /submit request answered 301 appends one line to the results log,
\* carrying its id, token, chosen-first flag and win1, win2, lose1, lose2 in
\* that order; every other request leaves the log as it was.
C4_LogStep ==
    IF GetOf(req', P_submit) /\ resp'.status = 301
    THEN /\ Len(log') = Len(log) + 1
         /\ SubSeq(log', 1, Len(log)) = log
         /\ LineCarries(log'[Len(log')], req'.url.params)
    ELSE log' = log

C4_LogHoldsAcceptedSubmits == [][C4_LogStep]_vars

C4_Witness ==
    /\ Len(log) = 2
    /\ log[1][3] = T_false
    /\ log[2][3] = T_true
    /\ log[2][4] = Txt(<<"1", ",", "2", ",", "3">>)
    /\ GetOf(req, P_submit)
    /\ resp.status = 301

\* C8: a request that is not a GET is answered 400 and leaves the log alone,
\* whatever its URL; a GET is answered 404 exactly when its first path
\* segment is not in the routing table, and the response is that of the
\* request cut to its first segment.
C8_DispatchStep ==
    /\ req'.method # "GET" => resp'.status = 400 /\ log' = log
    /\ (req'.method = "GET" /\ req'.url.ok) =>
           /\ resp'.status = 404 <=> req'.url.path[1] \notin RoutingTable
           /\ Len(req'.url.path) > 1 =>
                  resp' = Respond(handle_request(
                              [req' EXCEPT !.url.path = <<req'.url.path[1]>>], rnd', <<>>).res)

C8_Dispatch == [][C8_DispatchStep]_vars

C8_Witness ==
    /\ req.method = "POST"
    /\ req.url.ok
    /\ req.url.path = <<P_submit>>
    /\ req.url.params = SubmitBase
    /\ resp.status = 400
    /\ Len(log) = 1

\* The number a digit string spells.
RECURSIVE NumberOf(_)
NumberOf(s) ==
    IF s = <<>> THEN 0 ELSE NumberOf(SubSeq(s, 1, Len(s) - 1)) * 10 + (s[Len(s)] - Char0)

\* The channels a colour text spells.
ChannelsOf(s) ==
    LET f == Split(s, CommaChar) IN <<NumberOf(f[1]), NumberOf(f[2]), NumberOf(f[3])>>

\* v is n/d rounded to an integer and clamped into [0,255].
Saturated(v, n, d) ==
    /\ v \in 0..255
    /\ n >= 255 * d => v = 255
    /\ n <= 0 => v = 0
    /\ (0 < n /\ n < 255 * d) => (2 * (v * d - n) <= d /\ 2 * (n - v * d) <= d)

\* C5: each channel of add(c, d) and of subtract(c, d) is the exact sum or
\* difference rounded and clamped into [0,255], and so is each channel of
\* each of the 256 gradient entries bg + (fg - bg) * i/255.
C5_ArithmeticSaturates ==
    /\ ret.op = "add" =>
           \A ch \in 1..3 :
               Saturated(ret.val[ch],
                         call.colour[ch] * call.delta[ch].d + call.delta[ch].n, call.delta[ch].d)
    /\ ret.op = "sub" =>
           \A ch \in 1..3 :
               Saturated(ret.val[ch],
                         call.colour[ch] * call.delta[ch].d - call.delta[ch].n, call.delta[ch].d)
    /\ ret.op = "image" =>
           \A i \in 0..255, ch \in 1..3 :
               Saturated(ret.val.val.body[3 * i + ch],
                         call.bg[ch] * 255 + (call.fg[ch] - call.bg[ch]) * i, 255)

C5_Witness ==
    /\ ret.op = "add"
    /\ \E ch \in 1..3 : call.colour[ch] + call.delta[ch].n > 255 /\ ret.val[ch] = 255
    /\ \E ch \in 1..3 : call.colour[ch] + call.delta[ch].n < 0 /\ ret.val[ch] = 0

\* C6: the palette /image.png builds for two valid colours has 256 entries,
\* entry i the nearest colour to bg + (fg - bg) * i/255; entry 0 is bg and
\* entry 255 is fg on all three channels.
C6_PaletteEndsExact ==
    ret.op = "image" =>
        /\ ret.val.ok
        /\ ret.val.val.kind = "Data"
        /\ Len(ret.val.val.body) = 3 * 256
        /\ \A ch \in 1..3 :
               /\ ret.val.val.body[ch] = call.bg[ch]
               /\ ret.val.val.body[3 * 255 + ch] = call.fg[ch]
               /\ \A i \in 0..255 :
                      LET e == ret.val.val.body[3 * i + ch]
                          x == call.bg[ch] * 255 + (call.fg[ch] - call.bg[ch]) * i
                      IN  2 * (e * 255 - x) <= 255 /\ 2 * (x - e * 255) <= 255

C6_Witness ==
    /\ ret.op = "image"
    /\ call.bg = <<0, 255, 255>>
    /\ call.fg = <<255, 0, 0>>
    /\ ret.val.val.body[3 * 128 + 1] = 128

\* C7: decoding the query string id=<id>&q=<token> that encode makes of a
\* valid session gives back the same id and the same questionnaire.
C7_DecodeOfEncode ==
    ret.op = "from_params" =>
        /\ ret.val.ok
        /\ ret.val.val.id = call.session.id
        /\ ret.val.val.questionnaire = call.session.questionnaire

C7_Witness ==
    /\ ret.op = "from_params"
    /\ call.session.id = U32Max
    /\ call.session.questionnaire = Q0
    /\ ret.val.ok

\* The two stimuli of the page that answers a /question request.
Stimulus(random, k) ==
    random_colour_pair(random.pairs[k][1], random.pairs[k][2], random.pairs[k][3])

\* Form k of the page carries the session of the request, which = k, the
\* colours of stimulus k as win1, win2 and as the image, and the colours of
\* the other stimulus as lose1, lose2.
FormCarries(form, k, params, random) ==
    /\ Len(form.inputs) = 7
    /\ [i \in 1..7 |-> form.inputs[i][1]] = <<K_id, K_q, K_which, K_win1, K_win2, K_lose1, K_lose2>>
    /\ form.inputs[1][2] = Canon(params[K_id])
    /\ form.inputs[2][2] = params[K_q]
    /\ form.inputs[3][2] = <<Char0 + k>>
    /\ \A i \in 4..7 : IsColourText(form.inputs[i][2])
    /\ ChannelsOf(form.inputs[4][2]) = Stimulus(random, k)[1]
    /\ ChannelsOf(form.inputs[5][2]) = Stimulus(random, k)[2]
    /\ ChannelsOf(form.inputs[6][2]) = Stimulus(random, 3 - k)[1]
    /\ ChannelsOf(form.inputs[7][2]) = Stimulus(random, 3 - k)[2]
    /\ form.src = T_image_bg \o form.inputs[4][2] \o T_and_fg \o form.inputs[5][2]

\* The submission of form k of the page in resp was accepted, logged and
\* sent back to a question of the same session.
FormAccepted(k) ==
    /\ resp'.status = 301
    /\ resp'.body = T_question \o T_id_eq \o Canon(req.url.params[K_id])
                               \o T_and_q_eq \o req.url.params[K_q]
    /\ Len(log') = Len(log) + 1
    /\ SubSeq(log', 1, Len(log)) = log
    /\ LET line == log'[Len(log')]
       IN  /\ Len(line) = 7
           /\ line[1] = Canon(req.url.params[K_id])
           /\ line[2] = req.url.params[K_q]
           /\ line[3] = (IF k = 1 THEN T_true ELSE T_false)
           /\ \A i \in 4..7 : IsColourText(line[i])
           /\ ChannelsOf(line[4]) = Stimulus(rnd, k)[1]
           /\ ChannelsOf(line[5]) = Stimulus(rnd, k)[2]
           /\ ChannelsOf(line[6]) = Stimulus(rnd, 3 - k)[1]
           /\ ChannelsOf(line[7]) = Stimulus(rnd, 3 - k)[2]

\* C9: the page of a valid session holds two forms, form k carrying the
\* session, which = k, stimulus k as the winner and the other as the loser;
\* submitting either form unchanged is answered 301 to /question with the
\* same id and token and appends the line of that choice.
C9_TrialStep ==
    /\ resp'.kind = "Html" =>
           /\ Len(resp'.body) = 2
           /\ \A k \in 1..2 : FormCarries(resp'.body[k], k, req'.url.params, rnd')
    /\ resp.kind = "Html" =>
           \A k \in 1..2 : req' = FormRequest(resp.body[k]) => FormAccepted(k)

C9_Trial == [][C9_TrialStep]_vars

C9_Witness ==
    /\ Len(log) = 1
    /\ log[1][3] = T_false
    /\ log[1][4] # log[1][6]
    /\ GetOf(req, P_submit)
    /\ resp.status = 301

\* C10: for every centre, direction and scale of the tables, centre + delta
\* and centre - delta lie in [0,255] on every channel, so the two colours of
\* random_colour_pair are those sums unclamped, symmetric about the centre,
\* and different.
C10_PairWithinRange ==
    ret.op = "pair" =>
        LET c == CENTRES[call.ci]
            d == [ch \in 1..3 |-> DELTAS[call.di][ch].n * SCALES[call.si].n]
        IN  /\ \A ch \in 1..3 :
                   /\ c[ch] + d[ch] \in 0..255
                   /\ c[ch] - d[ch] \in 0..255
                   /\ ret.val[1][ch] = c[ch] + d[ch]
                   /\ ret.val[2][ch] = c[ch] - d[ch]
                   /\ ret.val[1][ch] - c[ch] = c[ch] - ret.val[2][ch]
            /\ ret.val[1] # ret.val[2]

C10_Witness ==
    /\ ret.op = "pair"
    /\ \E ch \in 1..3 : ret.val[2][ch] = 0
    /\ \E ch \in 1..3 : ret.val[2][ch] = 254

====
